---- MODULE Spec2Model ----
(***************************************************************************)
(* Room synchronization engine of MusicSync (server/index.js).             *)
(*                                                                         *)
(* The server keeps two maps, rooms (code -> Room) and users (socket id -> *)
(* Session), and registers one handler per inbound socket event.  Node     *)
(* runs every handler to completion, so each handler is one action.  The   *)
(* socket.io adapter keeps, for every socket, the set of broadcast rooms   *)
(* it has joined (socket.join); io.to(r) and socket.to(r) fan out over     *)
(* that set, not over Room.users, and a socket has left all of them when   *)
(* its disconnect handler runs.                                            *)
(*                                                                         *)
(* Not modelled: message ids and timestamps (Date.now), which no handler   *)
(* reads back.                                                             *)
(*                                                                         *)
(* Spec is the whole server.  The other specifications run the same        *)
(* handlers over fewer events and inputs, so that TLC can exhaust them.    *)
(***************************************************************************)
EXTENDS Integers, Sequences, FiniteSets, TLC

VARIABLES
    conn,     \* socket id -> "none" | "open" | "closed"
    rooms,    \* const rooms = new Map(): room code -> Room
    users,    \* const users = new Map(): socket id -> Session
    joined,   \* socket.io adapter: socket id -> set of broadcast rooms joined
    out,      \* events emitted by the handler that ran last, in emit order
    last,     \* the inbound event that handler processed
    inbox,    \* socket id -> events sent to that client and not yet handled
    view,     \* socket id -> the client's `room` state (App.tsx), Null in the lobby
    typingUsers  \* socket id -> the client's `typingUsers` state: names

vars == <<conn, rooms, users, joined, out, last, inbox, view, typingUsers>>

----------------------------------------------------------------------------
(* Bounds of the model *)

MaxConns == 2       \* socket ids 1..MaxConns; an id is never reused
MaxLog == 2         \* no join-room or send-message into a log this long
MaxPlayLog == 3     \* the same cap where select-song appends too
MaxPlaylist == 1    \* no add-song into a playlist this long
MaxSongs == 2       \* the same cap where the playlist is the only content
MaxInFlight == 3    \* no client emits while more events than this are in flight

----------------------------------------------------------------------------
(* Values *)

Null == [null |-> TRUE]

\* the value of a property the object does not have
Undefined == [undefined |-> TRUE]

Conns == 1..MaxConns

\* codes generateRoomCode may return and clients may ask to join
Codes == {"AB12CD", "XY34ZW"}

\* display names as sequences of UTF-16 code units: "Ann", "Bo"
Ann == <<65, 110, 110>>
Bo == <<66, 111>>
Names == {Ann, Bo}

\* display names for the avatar hash: the empty one, a short one, one whose
\* hash wraps in hash << 5 and ends negative, one whose hash ends below -2^31
Maximilian == <<77, 97, 120, 105, 109, 105, 108, 105, 97, 110>>
Alexandra == <<65, 108, 101, 120, 97, 110, 100, 114, 97>>
AvatarNames == {<<>>, Ann, Maximilian, Alexandra}

Texts == {"hi"}

TitlePool == <<"Song A", "Song B">>
SongIds == {1, 2}

\* currentTime values a client may report
Times == {-1, 0, 1}

SystemAvatar == "#6366F1"

allowedOrigins ==
    { "http://localhost:5173", "http://localhost:3000",
      "https://music-sync.vercel.app", "https://musicsync-e6za.onrender.com" }

NoOrigin == "<none>"
Origins == {NoOrigin, "http://localhost:5173", "https://evil.example"}

----------------------------------------------------------------------------
(* getAvatarColor.  JS numbers are doubles; hash << 5 first truncates hash  *)
(* to a signed 32-bit integer and wraps the shifted result to 32 bits,     *)
(* while the subtraction and the addition are exact.  A number is kept as  *)
(* <<hi, lo>> meaning hi * 2^16 + lo with lo in 0..65535.                  *)

W16 == 65536

colors ==
    << "#8B5CF6", "#EC4899", "#3B82F6", "#10B981", "#F59E0B",
       "#EF4444", "#6366F1", "#8B5A2B", "#059669", "#DC2626" >>

\* (hash << 5) as a signed 32-bit value
Shl5(h) ==
    LET lo32 == h[2] * 32
        hi16 == (h[1] * 32 + (lo32 \div W16)) % W16
    IN  << IF hi16 >= W16 \div 2 THEN hi16 - W16 ELSE hi16, lo32 % W16 >>

\* code + ((hash << 5) - hash)
HashStep(h, code) ==
    LET s == Shl5(h)
        t == code + s[2] - h[2]
    IN  << s[1] - h[1] + (t \div W16), t % W16 >>

RECURSIVE HashFold(_, _, _)
HashFold(username, i, h) ==
    IF i > Len(username) THEN h
    ELSE HashFold(username, i + 1, HashStep(h, username[i]))

\* Math.abs(hash) % colors.length
AbsMod(h, n) ==
    IF h[1] >= 0
    THEN ((h[1] % n) * (W16 % n) + h[2]) % n
    ELSE ((((-h[1]) % n) * (W16 % n)) - h[2]) % n

\* faulty variant: Math.abs left out, a negative index reads past the array
getAvatarColorSigned(username) ==
    LET hash == HashFold(username, 1, <<0, 0>>)
    IN  IF hash[1] < 0 THEN "undefined"
        ELSE colors[AbsMod(hash, Len(colors)) + 1]

getAvatarColor(username) ==
    colors[AbsMod(HashFold(username, 1, <<0, 0>>), Len(colors)) + 1]

----------------------------------------------------------------------------
(* Maps *)

Has(map, k) == k \in DOMAIN map

MapSet(map, k, v) == [x \in DOMAIN map \cup {k} |-> IF x = k THEN v ELSE map[x]]

\* faulty variant: the entry stays
MapDeleteNothing(map, k) == map

MapDelete(map, k) == [x \in DOMAIN map \ {k} |-> map[x]]

EmptyMap == [x \in {} |-> Null]

\* faulty variant: the filter keeps every entry
FilterKeepsAll(s, id) == s

RECURSIVE Filter(_, _)
Filter(s, id) ==
    IF s = <<>> THEN <<>>
    ELSE IF Head(s).id # id THEN <<Head(s)>> \o Filter(Tail(s), id)
         ELSE Filter(Tail(s), id)

----------------------------------------------------------------------------
(* socket.io fan-out *)

\* faulty variant: io.to(roomCode) reaches no socket
IoToNobody(k) == {c \in Conns : k \in joined[c] /\ c \notin Conns}

\* io.to(roomCode): every socket that joined the broadcast room
IoTo(k) == {c \in Conns : k \in joined[c]}

\* faulty variant: io.to(roomCode) where the handler calls socket.to(roomCode)
SocketToAll(c, k) == IoTo(k)

\* socket.to(roomCode): the same, except the emitting socket
SocketTo(c, k) == IoTo(k) \ {c}

\* socket.emit(ev, data): to the socket itself
ToSocket(c, ev, data) == [ev |-> ev, room |-> "", to |-> {c}, data |-> data]

\* io.to(k).emit(ev, data) / socket.to(k).emit(ev, data): to the sockets `to`
\* of broadcast room k
ToRoom(k, to, ev, data) == [ev |-> ev, room |-> k, to |-> to, data |-> data]

\* the inbound event a handler processes.  `before` keeps what select-song
\* and disconnect overwrite in the room they find, as it was when the handler
\* started; it is Null for every other event and when no room is found.
Event(type, c, data, before) ==
    [type |-> type, conn |-> c, data |-> data, before |-> before]

Playback(room) ==
    [ currentSong |-> room.currentSong, isPlaying |-> room.isPlaying,
      currentTime |-> room.currentTime ]

PlaybackBefore(roomCode) ==
    IF Has(rooms, roomCode) THEN Playback(rooms[roomCode]) ELSE Null

UsersBefore(roomCode) ==
    IF Has(rooms, roomCode) THEN [users |-> rooms[roomCode].users] ELSE Null

----------------------------------------------------------------------------
Init ==
    /\ conn = [c \in Conns |-> "none"]
    /\ rooms = EmptyMap
    /\ users = EmptyMap
    /\ joined = [c \in Conns |-> {}]
    /\ out = <<>>
    /\ last = Event("init", 0, Null, Null)
    /\ inbox = [c \in Conns |-> <<>>]
    /\ view = [c \in Conns |-> Null]
    /\ typingUsers = [c \in Conns |-> <<>>]

\* a callback that lets every origin pass
OriginAlwaysAllowed(origin) == origin = NoOrigin \/ origin # NoOrigin

\* the cors origin callback of new Server(...)
OriginAllowed(origin) == origin = NoOrigin \/ origin \in allowedOrigins

\* io.on('connection'): a socket is opened if its origin passes the callback
Connect(c, origin) ==
    /\ conn[c] = "none"
    /\ conn' = [conn EXCEPT ![c] = IF OriginAllowed(origin) THEN "open" ELSE "none"]
    /\ out' = <<>>
    /\ last' = Event(IF OriginAllowed(origin) THEN "connection" ELSE "refused", c,
                     [origin |-> origin], Null)
    /\ UNCHANGED <<rooms, users, joined>>

NewRoom(roomCode) ==
    [ code |-> roomCode, users |-> <<>>, messages |-> <<>>, playlist |-> <<>>,
      currentSong |-> Null, isPlaying |-> FALSE, currentTime |-> 0 ]

\* socket.on('create-room'); roomCode is what generateRoomCode() returned:
\* Math.random() may return any code, one already in the registry included
CreateRoom(c, roomCode) ==
    /\ conn[c] = "open"
    /\ rooms' = MapSet(rooms, roomCode, NewRoom(roomCode))
    /\ out' = << ToSocket(c, "room-created", [roomCode |-> roomCode]) >>
    /\ last' = Event("create-room", c, [roomCode |-> roomCode], Null)
    /\ UNCHANGED <<conn, users, joined>>

\* faulty variant: every message is given the system avatar
MessageSystemAvatar(username, avatar, text) ==
    [username |-> username, avatar |-> SystemAvatar, text |-> text]

Message(username, avatar, text) ==
    [username |-> username, avatar |-> avatar, text |-> text]

SystemMessage(text) == Message("System", SystemAvatar, text)

\* faulty variant: the snapshot is sent with an empty log
SnapshotEmptyLog(room) ==
    [ code |-> room.code, users |-> room.users, messages |-> <<>>,
      playlist |-> room.playlist, currentSong |-> room.currentSong,
      isPlaying |-> room.isPlaying, currentTime |-> room.currentTime ]

\* faulty variant: the snapshot is sent with playback stopped at 0
SnapshotStopped(room) ==
    [ code |-> room.code, users |-> room.users, messages |-> room.messages,
      playlist |-> room.playlist, currentSong |-> room.currentSong,
      isPlaying |-> FALSE, currentTime |-> 0 ]

\* the room object literal sent inside room-joined
Snapshot(room) ==
    [ code |-> room.code, users |-> room.users, messages |-> room.messages,
      playlist |-> room.playlist, currentSong |-> room.currentSong,
      isPlaying |-> room.isPlaying, currentTime |-> room.currentTime ]

\* faulty variant: users.set(...) moved above the `if (!room)` check
JoinErrorAfterSet(c, roomCode, username) ==
    /\ users' = MapSet(users, c, [ id |-> c, username |-> username,
                                   avatar |-> getAvatarColor(username),
                                   isTyping |-> FALSE, roomCode |-> roomCode ])
    /\ out' = << ToSocket(c, "room-error", [message |-> "Room not found"]) >>
    /\ UNCHANGED <<conn, rooms, joined>>

\* join-room, `if (!room)`: reply room-error and return
JoinError(c, roomCode, username) ==
    /\ out' = << ToSocket(c, "room-error", [message |-> "Room not found"]) >>
    /\ UNCHANGED <<conn, rooms, users, joined>>

\* join-room, room found
JoinOk(c, roomCode, username) ==
    LET room == rooms[roomCode]
        user == [ id |-> c, username |-> username,
                  avatar |-> getAvatarColor(username), isTyping |-> FALSE ]
        session == [ id |-> c, username |-> username, avatar |-> user.avatar,
                     isTyping |-> FALSE, roomCode |-> roomCode ]
        pushed == [room EXCEPT !.users = Append(@, user)]
        welcomeMessage == SystemMessage(<<"joined the room", username>>)
        members == IoTo(roomCode) \cup {c}
    IN  /\ users' = MapSet(users, c, session)
        /\ joined' = [joined EXCEPT ![c] = @ \cup {roomCode}]
        /\ rooms' = MapSet(rooms, roomCode,
                           [pushed EXCEPT !.messages = Append(@, welcomeMessage)])
        /\ out' = << ToSocket(c, "room-joined", [room |-> Snapshot(pushed)]),
                     ToRoom(roomCode, members \ {c}, "user-joined", [user |-> user]),
                     ToRoom(roomCode, members, "users-updated",
                            [users |-> pushed.users]),
                     ToRoom(roomCode, members, "new-message",
                            [message |-> welcomeMessage]) >>
        /\ UNCHANGED conn

\* socket.on('join-room')
JoinRoom(c, roomCode, username) ==
    /\ conn[c] = "open"
    /\ last' = Event("join-room", c, [roomCode |-> roomCode, username |-> username],
                     Null)
    /\ IF ~Has(rooms, roomCode) THEN JoinError(c, roomCode, username)
       ELSE JoinOk(c, roomCode, username)

\* the room code of the sender's Session, "" when it has none
RoomOf(c) == IF Has(users, c) THEN users[c].roomCode ELSE ""

\* `const user = users.get(socket.id); if (!user) return;` then
\* `const room = rooms.get(user.roomCode); if (room) {...}`
HasRoom(c) == Has(users, c) /\ Has(rooms, users[c].roomCode)

\* faulty variant: the early return also empties the Session table
DroppedClearsUsers ==
    /\ out' = <<>>
    /\ users' = EmptyMap
    /\ UNCHANGED <<conn, rooms, joined>>

\* every room-scoped handler that finds no Session or no Room does nothing
Dropped ==
    /\ out' = <<>>
    /\ UNCHANGED <<conn, rooms, users, joined>>

\* socket.on('send-message')
SendMessage(c, text) ==
    /\ conn[c] = "open"
    /\ last' = Event("send-message", c, [text |-> text], Null)
    /\ IF ~HasRoom(c) THEN Dropped
       ELSE LET user == users[c]
                room == rooms[user.roomCode]
                message == Message(user.username, user.avatar, text)
            IN  /\ rooms' = MapSet(rooms, user.roomCode,
                                   [room EXCEPT !.messages = Append(@, message)])
                /\ out' = << ToRoom(user.roomCode, IoTo(user.roomCode), "new-message",
                                    [message |-> message]) >>
                /\ UNCHANGED <<conn, users, joined>>

\* room.users.find(u => u.id === socket.id): index of the first match, 0 if none
Find(roomUsers, id) ==
    LET hits == {i \in 1..Len(roomUsers) : roomUsers[i].id = id}
    IN  IF hits = {} THEN 0 ELSE CHOOSE i \in hits : \A j \in hits : i <= j

\* socket.on('typing')
Typing(c, isTyping) ==
    /\ conn[c] = "open"
    /\ last' = Event("typing", c, [isTyping |-> isTyping], Null)
    /\ IF ~HasRoom(c) THEN Dropped
       ELSE LET user == users[c]
                room == rooms[user.roomCode]
                i == Find(room.users, c)
            IN  IF i = 0 THEN Dropped
                ELSE /\ rooms' = MapSet(rooms, user.roomCode,
                                        [room EXCEPT !.users[i].isTyping = isTyping])
                     /\ out' = << ToRoom(user.roomCode, SocketTo(c, user.roomCode),
                                         "user-typing",
                                         [ userId |-> c, username |-> user.username,
                                           isTyping |-> isTyping ]) >>
                     /\ UNCHANGED <<conn, users, joined>>

\* the payload a client sends with add-song (id is always set by the client)
SongData(i) ==
    [ id |-> i, title |-> TitlePool[i], artist |-> "Artist", duration |-> "3:00",
      url |-> [blob |-> i] ]

\* the payload the other client build (src/unnamed/part_000) sends with
\* add-song: the file itself, base64-encoded, in audioData, and no url
EncodedSongData(i) ==
    [ id |-> i, title |-> TitlePool[i], artist |-> "Artist", duration |-> "3:00",
      audioData |-> [base64 |-> i] ]

\* data.url
UrlOf(data) == IF Has(data, "url") THEN data.url ELSE Undefined

\* faulty variant: addedBy left empty instead of taken from the Session
SongAddedByNobody(data, addedBy) ==
    [ id |-> data.id, title |-> data.title, artist |-> data.artist,
      duration |-> data.duration, addedBy |-> <<>>, url |-> UrlOf(data) ]

\* the song object literal built by the add-song handler
Song(data, addedBy) ==
    [ id |-> data.id, title |-> data.title, artist |-> data.artist,
      duration |-> data.duration, addedBy |-> addedBy, url |-> UrlOf(data) ]

\* socket.on('add-song')
AddSong(c, data) ==
    /\ conn[c] = "open"
    /\ last' = Event("add-song", c, data, Null)
    /\ IF ~HasRoom(c) THEN Dropped
       ELSE LET user == users[c]
                room == rooms[user.roomCode]
                playlist == Append(room.playlist, Song(data, user.username))
            IN  /\ rooms' = MapSet(rooms, user.roomCode, [room EXCEPT !.playlist = playlist])
                /\ out' = << ToRoom(user.roomCode, IoTo(user.roomCode),
                                    "playlist-updated", [playlist |-> playlist]) >>
                /\ UNCHANGED <<conn, users, joined>>

\* what a client may put in music-control: currentTime is not validated and
\* may be absent
ControlInputs ==
    [isPlaying : BOOLEAN, currentTime : Times] \cup [isPlaying : BOOLEAN]

\* faulty variant: a missing currentTime becomes 1
TimeOrOne(data) ==
    IF Has(data, "currentTime") /\ data.currentTime # 0 THEN data.currentTime ELSE 1

\* data.currentTime || 0
TimeOrZero(data) ==
    IF Has(data, "currentTime") /\ data.currentTime # 0 THEN data.currentTime ELSE 0

\* socket.on('music-control')
MusicControl(c, data) ==
    /\ conn[c] = "open"
    /\ last' = Event("music-control", c, data, Null)
    /\ IF ~HasRoom(c) THEN Dropped
       ELSE LET user == users[c]
                room == rooms[user.roomCode]
            IN  /\ rooms' = MapSet(rooms, user.roomCode,
                                   [room EXCEPT !.isPlaying = data.isPlaying,
                                                !.currentTime = TimeOrZero(data)])
                /\ out' = << ToRoom(user.roomCode, SocketTo(c, user.roomCode),
                                    "music-sync",
                                    [ isPlaying |-> data.isPlaying,
                                      currentTime |-> TimeOrZero(data) ]) >>
                /\ UNCHANGED <<conn, users, joined>>

\* the songs a client may send with select-song
SelectInputs == {Song(SongData(i), Ann) : i \in SongIds}

\* faulty variant: `room.currentTime = 0` left out
SelectedKeepsTime(room, song) ==
    [room EXCEPT !.currentSong = song, !.isPlaying = FALSE]

\* select-song: the three assignments to the room
Selected(room, song) ==
    [room EXCEPT !.currentSong = song, !.isPlaying = FALSE, !.currentTime = 0]

\* faulty variant: song-changed sent with socket.to, as music-sync is
SelectSongSkipsSender(c, song) ==
    /\ conn[c] = "open"
    /\ last' = Event("select-song", c, [song |-> song], PlaybackBefore(RoomOf(c)))
    /\ IF ~HasRoom(c) THEN Dropped
       ELSE LET user == users[c]
                room == rooms[user.roomCode]
                message == SystemMessage(<<"selected", user.username, song.title,
                                           song.artist>>)
            IN  /\ rooms' = MapSet(rooms, user.roomCode,
                                   [Selected(room, song) EXCEPT
                                        !.messages = Append(@, message)])
                /\ out' = << ToRoom(user.roomCode, SocketTo(c, user.roomCode),
                                    "song-changed",
                                    [ song |-> song, isPlaying |-> FALSE,
                                      currentTime |-> 0 ]),
                             ToRoom(user.roomCode, IoTo(user.roomCode), "new-message",
                                    [message |-> message]) >>
                /\ UNCHANGED <<conn, users, joined>>

\* socket.on('select-song')
SelectSong(c, song) ==
    /\ conn[c] = "open"
    /\ last' = Event("select-song", c, [song |-> song], PlaybackBefore(RoomOf(c)))
    /\ IF ~HasRoom(c) THEN Dropped
       ELSE LET user == users[c]
                room == rooms[user.roomCode]
                message == SystemMessage(<<"selected", user.username, song.title,
                                           song.artist>>)
            IN  /\ rooms' = MapSet(rooms, user.roomCode,
                                   [Selected(room, song) EXCEPT
                                        !.messages = Append(@, message)])
                /\ out' = << ToRoom(user.roomCode, IoTo(user.roomCode), "song-changed",
                                    [ song |-> song, isPlaying |-> FALSE,
                                      currentTime |-> 0 ]),
                             ToRoom(user.roomCode, IoTo(user.roomCode), "new-message",
                                    [message |-> message]) >>
                /\ UNCHANGED <<conn, users, joined>>

\* faulty variant: the empty-room clean-up left out
CleanUpNever(roomCode, room) == MapSet(rooms, roomCode, room)

\* `if (room.users.length === 0) rooms.delete(user.roomCode)`
CleanUp(roomCode, room) ==
    IF Len(room.users) = 0 THEN MapDelete(rooms, roomCode)
    ELSE MapSet(rooms, roomCode, room)

\* faulty variant: without the `if (user)` test, a socket that has no Session
\* takes every room with it
DisconnectClearsRegistry(c) ==
    /\ conn[c] = "open"
    /\ conn' = [conn EXCEPT ![c] = "closed"]
    /\ joined' = [joined EXCEPT ![c] = {}]
    /\ last' = Event("disconnect", c, Null, UsersBefore(RoomOf(c)))
    /\ out' = <<>>
    /\ IF ~Has(users, c)
       THEN rooms' = EmptyMap /\ UNCHANGED users
       ELSE users' = MapDelete(users, c) /\ UNCHANGED rooms

\* socket.on('disconnect').  socket.io has already taken the socket out of
\* every broadcast room when the handler runs.
Disconnect(c) ==
    /\ conn[c] = "open"
    /\ conn' = [conn EXCEPT ![c] = "closed"]
    /\ joined' = [joined EXCEPT ![c] = {}]
    /\ last' = Event("disconnect", c, Null, UsersBefore(RoomOf(c)))
    /\ IF ~Has(users, c)
       THEN /\ out' = <<>>
            /\ UNCHANGED <<rooms, users>>
       ELSE LET user == users[c]
                roomCode == user.roomCode
                others == IoTo(roomCode) \ {c}
            IN  /\ users' = MapDelete(users, c)
                /\ IF ~Has(rooms, roomCode)
                   THEN /\ out' = <<>>
                        /\ UNCHANGED rooms
                   ELSE LET room == rooms[roomCode]
                            left == Filter(room.users, c)
                            message == SystemMessage(<<"left the room", user.username>>)
                        IN  /\ rooms' = CleanUp(roomCode,
                                            [room EXCEPT !.users = left,
                                                         !.messages = Append(@, message)])
                            /\ out' = << ToRoom(roomCode, others, "user-left",
                                                [userId |-> c]),
                                         ToRoom(roomCode, others, "users-updated",
                                                [users |-> left]),
                                         ToRoom(roomCode, others, "new-message",
                                                [message |-> message]) >>

----------------------------------------------------------------------------
(* The client (src/App.tsx).  Its `room` state is null in the lobby, set   *)
(* by room-joined and patched by the other events; the lobby shows the     *)
(* create and join buttons, the room screen everything else.  socket.io    *)
(* delivers the events of one socket in the order the server emitted them. *)

\* faulty variant: the events of one handler travel in reverse order
SentToReversed(o, d) ==
    LET mine == SelectSeq(o, LAMBDA e : d \in e.to)
    IN  [i \in 1..Len(mine) |-> [ ev |-> mine[Len(mine) + 1 - i].ev,
                                  data |-> mine[Len(mine) + 1 - i].data ]]

\* the events of `o` addressed to socket d, as they travel
SentTo(o, d) ==
    LET mine == SelectSeq(o, LAMBDA e : d \in e.to)
    IN  [i \in 1..Len(mine) |-> [ev |-> mine[i].ev, data |-> mine[i].data]]

\* what the handler that just ran emitted is queued for its recipients; a
\* closed socket gets nothing and what it had not handled is lost
Post ==
    /\ inbox' = [d \in Conns |->
                    IF conn'[d] = "open" THEN inbox[d] \o SentTo(out', d) ELSE <<>>]
    /\ UNCHANGED <<view, typingUsers>>

\* newSocket.on(...): the new `room` state after one event
OnEvent(room, e) ==
    IF e.ev = "room-joined" THEN e.data.room
    ELSE IF room = Null THEN Null
    ELSE IF e.ev = "new-message"
         THEN [room EXCEPT !.messages = Append(@, e.data.message)]
    ELSE IF e.ev = "user-joined"
         THEN [room EXCEPT !.users = Append(@, e.data.user)]
    ELSE IF e.ev = "user-left"
         THEN [room EXCEPT !.users = Filter(@, e.data.userId)]
    ELSE IF e.ev = "users-updated"
         THEN [room EXCEPT !.users = e.data.users]
    ELSE IF e.ev = "playlist-updated"
         THEN [room EXCEPT !.playlist = e.data.playlist]
    ELSE IF e.ev = "song-changed"
         THEN [room EXCEPT !.currentSong = e.data.song,
                           !.isPlaying = e.data.isPlaying,
                           !.currentTime = e.data.currentTime]
    ELSE IF e.ev = "music-sync"
         THEN [room EXCEPT !.isPlaying = e.data.isPlaying,
                           !.currentTime = e.data.currentTime]
    ELSE room

\* prev.filter(u => u !== data.username)
Without(names, username) == SelectSeq(names, LAMBDA u : u # username)

\* newSocket.on('user-typing'): the new `typingUsers` state after one event
OnTyping(names, e) ==
    IF e.ev # "user-typing" THEN names
    ELSE IF e.data.isTyping
         THEN Append(Without(names, e.data.username), e.data.username)
    ELSE Without(names, e.data.username)

\* the client handles the oldest event queued for it
Deliver(c) ==
    /\ inbox[c] # <<>>
    /\ view' = [view EXCEPT ![c] = OnEvent(@, Head(inbox[c]))]
    /\ typingUsers' = [typingUsers EXCEPT ![c] = OnTyping(@, Head(inbox[c]))]
    /\ inbox' = [inbox EXCEPT ![c] = Tail(@)]
    /\ UNCHANGED <<conn, rooms, users, joined, out, last>>

\* createRoom, from the lobby
ClientCreateRoom(c, roomCode) ==
    /\ view[c] = Null
    /\ CreateRoom(c, roomCode)
    /\ Post

\* joinRoom, from the lobby
ClientJoinRoom(c, roomCode, username) ==
    /\ view[c] = Null
    /\ JoinRoom(c, roomCode, username)
    /\ Post

\* sendMessage, from the room screen
ClientSendMessage(c, text) ==
    /\ view[c] # Null
    /\ SendMessage(c, text)
    /\ Post

\* addSong, from the room screen
ClientAddSong(c, data) ==
    /\ view[c] # Null
    /\ AddSong(c, data)
    /\ Post

\* selectSong(song), on a song of the playlist shown
ClientSelectSong(c, i) ==
    /\ view[c] # Null
    /\ i \in 1..Len(view[c].playlist)
    /\ SelectSong(c, view[c].playlist[i])
    /\ Post

\* toggleMusic: `if (socket && room?.currentSong)` emit music-control with
\* !room.isPlaying and the audio element's position
toggleMusic(c, currentTime) ==
    /\ view[c] # Null
    /\ view[c].currentSong # Null
    /\ MusicControl(c, [isPlaying |-> ~view[c].isPlaying, currentTime |-> currentTime])
    /\ Post

\* handleTyping(isTyping), from the message input of the room screen: true on
\* a key stroke, false when the 2 s timer runs out
handleTyping(c, isTyping) ==
    /\ view[c] # Null
    /\ Typing(c, isTyping)
    /\ Post

\* <audio onTimeUpdate>: `if (socket && room?.isPlaying && audioRef.current)`
\* emit music-control with isPlaying true and the element's position.  The
\* element fires the event while it plays, and the effects start it only
\* for a currentSong.
onTimeUpdate(c, currentTime) ==
    /\ view[c] # Null
    /\ view[c].currentSong # Null
    /\ view[c].isPlaying
    /\ MusicControl(c, [isPlaying |-> TRUE, currentTime |-> currentTime])
    /\ Post

\* the tab is closed or the connection drops
ClientDisconnect(c) ==
    /\ Disconnect(c)
    /\ Post

\* The client of src/unnamed/part_000 has the same handlers, but its
\* connection effect depends on [audioCache, room?.currentSong]: when one of
\* them changed in a render, React runs the clean-up, `newSocket.close()`,
\* and the effect again, which opens a socket n that joins nothing.  A
\* socket that joined was opened in the lobby, where room?.currentSong is
\* undefined, so the effect is due as soon as room-joined has set the room
\* (currentSong null or a song); events handled before it runs are kept.
Remount(c, n) ==
    /\ view[c] # Null
    /\ joined[c] # {}
    /\ conn[n] = "none"
    /\ Disconnect(c)
    /\ inbox' = [d \in Conns |->
                    IF conn'[d] = "open" THEN inbox[d] \o SentTo(out', d) ELSE <<>>]
    /\ view' = [view EXCEPT ![c] = Null, ![n] = view[c]]
    /\ typingUsers' = [typingUsers EXCEPT ![c] = <<>>, ![n] = typingUsers[c]]

\* every event sent has been handled
Quiet == \A c \in Conns : inbox[c] = <<>>

----------------------------------------------------------------------------
(* Specifications.  The handlers above append without limit; a            *)
(* specification explores them only from states below its caps.           *)

\* the clients are left out: nothing is queued for them and they handle nothing
ServerOnly == UNCHANGED <<inbox, view, typingUsers>>

LogLen(roomCode) == IF Has(rooms, roomCode) THEN Len(rooms[roomCode].messages) ELSE 0

PlaylistLen(roomCode) == IF Has(rooms, roomCode) THEN Len(rooms[roomCode].playlist) ELSE 0

\* Every join pushes one user and one message, so a log cap on join-room
\* caps Room.users as well.
Next ==
    \/ \E c \in Conns, o \in Origins : ServerOnly /\ Connect(c, o)
    \/ \E c \in Conns, k \in Codes : ServerOnly /\ CreateRoom(c, k)
    \/ \E c \in Conns, k \in Codes, n \in Names : ServerOnly /\
          LogLen(k) < MaxPlayLog /\ JoinRoom(c, k, n)
    \/ \E c \in Conns, t \in Texts : ServerOnly /\ LogLen(RoomOf(c)) < MaxPlayLog /\ SendMessage(c, t)
    \/ \E c \in Conns, b \in BOOLEAN : ServerOnly /\ Typing(c, b)
    \/ \E c \in Conns, i \in SongIds : ServerOnly /\
          PlaylistLen(RoomOf(c)) < MaxPlaylist /\ AddSong(c, SongData(i))
    \/ \E c \in Conns, d \in ControlInputs : ServerOnly /\ MusicControl(c, d)
    \/ \E c \in Conns, s \in SelectInputs : ServerOnly /\
          LogLen(RoomOf(c)) < MaxPlayLog /\ SelectSong(c, s)
    \/ \E c \in Conns : ServerOnly /\ Disconnect(c)

Spec == Init /\ [][Next]_vars

\* Rooms with chat as their only content
NextRooms ==
    \/ \E c \in Conns, o \in Origins : ServerOnly /\ Connect(c, o)
    \/ \E c \in Conns, k \in Codes : ServerOnly /\ CreateRoom(c, k)
    \/ \E c \in Conns, k \in Codes, n \in Names : ServerOnly /\ LogLen(k) < MaxLog /\ JoinRoom(c, k, n)
    \/ \E c \in Conns, t \in Texts : ServerOnly /\ LogLen(RoomOf(c)) < MaxLog /\ SendMessage(c, t)
    \/ \E c \in Conns : ServerOnly /\ Disconnect(c)

SpecRooms == Init /\ [][NextRooms]_vars

\* Registry and membership alone: every participant calls itself Ann
NextRegistry ==
    \/ \E c \in Conns, o \in Origins : ServerOnly /\ Connect(c, o)
    \/ \E c \in Conns, k \in Codes : ServerOnly /\ CreateRoom(c, k)
    \/ \E c \in Conns, k \in Codes : ServerOnly /\ LogLen(k) < MaxLog /\ JoinRoom(c, k, Ann)
    \/ \E c \in Conns : ServerOnly /\ Disconnect(c)

SpecRegistry == Init /\ [][NextRegistry]_vars

\* Playback of one room: generateRoomCode always draws the same code, every
\* participant calls itself Ann, and currentTime is 1 or absent
PlayCode == "AB12CD"

PlayControls == [isPlaying : BOOLEAN, currentTime : {1}] \cup [isPlaying : BOOLEAN]

NextPlayback ==
    \/ \E c \in Conns, o \in Origins : ServerOnly /\ Connect(c, o)
    \/ \E c \in Conns : ServerOnly /\ CreateRoom(c, PlayCode)
    \/ \E c \in Conns : ServerOnly /\ LogLen(PlayCode) < MaxPlayLog /\ JoinRoom(c, PlayCode, Ann)
    \/ \E c \in Conns, d \in PlayControls : ServerOnly /\ MusicControl(c, d)
    \/ \E c \in Conns, s \in SelectInputs : ServerOnly /\
          LogLen(RoomOf(c)) < MaxPlayLog /\ SelectSong(c, s)
    \/ \E c \in Conns : ServerOnly /\ Disconnect(c)

SpecPlayback == Init /\ [][NextPlayback]_vars

\* The specifications below keep to one room code and to connections whose
\* origin passes: generateRoomCode always draws PlayCode.

\* Chat of one room
NextChat ==
    \/ \E c \in Conns : ServerOnly /\ Connect(c, NoOrigin)
    \/ \E c \in Conns : ServerOnly /\ CreateRoom(c, PlayCode)
    \/ \E c \in Conns, n \in Names : ServerOnly /\
          LogLen(PlayCode) < MaxPlayLog /\ JoinRoom(c, PlayCode, n)
    \/ \E c \in Conns, t \in Texts : ServerOnly /\ LogLen(RoomOf(c)) < MaxPlayLog /\ SendMessage(c, t)
    \/ \E c \in Conns : ServerOnly /\ Disconnect(c)

SpecChat == Init /\ [][NextChat]_vars

\* Playlist of one room: every client adds the same file
NextPlaylist ==
    \/ \E c \in Conns : ServerOnly /\ Connect(c, NoOrigin)
    \/ \E c \in Conns : ServerOnly /\ CreateRoom(c, PlayCode)
    \/ \E c \in Conns, n \in Names : ServerOnly /\ LogLen(PlayCode) < MaxLog /\ JoinRoom(c, PlayCode, n)
    \/ \E c \in Conns : ServerOnly /\ PlaylistLen(RoomOf(c)) < MaxSongs /\ AddSong(c, SongData(1))
    \/ \E c \in Conns : ServerOnly /\ Disconnect(c)

SpecPlaylist == Init /\ [][NextPlaylist]_vars

\* Typing indicators of one room
NextTyping ==
    \/ \E c \in Conns : ServerOnly /\ Connect(c, NoOrigin)
    \/ \E c \in Conns : ServerOnly /\ CreateRoom(c, PlayCode)
    \/ \E c \in Conns, n \in Names : ServerOnly /\ LogLen(PlayCode) < MaxLog /\ JoinRoom(c, PlayCode, n)
    \/ \E c \in Conns, b \in BOOLEAN : ServerOnly /\ Typing(c, b)
    \/ \E c \in Conns : ServerOnly /\ Disconnect(c)

SpecTyping == Init /\ [][NextTyping]_vars

\* Room-scoped events that arrive from connections without a Session, next to
\* a room that others join and leave
NextOrphan ==
    \/ \E c \in Conns : ServerOnly /\ Connect(c, NoOrigin)
    \/ \E c \in Conns : ServerOnly /\ CreateRoom(c, PlayCode)
    \/ \E c \in Conns : ServerOnly /\ LogLen(PlayCode) < MaxLog /\ JoinRoom(c, PlayCode, Ann)
    \/ \E c \in Conns, t \in Texts : ServerOnly /\ ~Has(users, c) /\ SendMessage(c, t)
    \/ \E c \in Conns, b \in BOOLEAN : ServerOnly /\ ~Has(users, c) /\ Typing(c, b)
    \/ \E c \in Conns, i \in SongIds : ServerOnly /\ ~Has(users, c) /\ AddSong(c, SongData(i))
    \/ \E c \in Conns, d \in PlayControls : ServerOnly /\ ~Has(users, c) /\ MusicControl(c, d)
    \/ \E c \in Conns, s \in SelectInputs : ServerOnly /\ ~Has(users, c) /\ SelectSong(c, s)
    \/ \E c \in Conns : ServerOnly /\ Disconnect(c)

SpecOrphan == Init /\ [][NextOrphan]_vars

\* One room filled with all kinds of content before a late join: every
\* participant calls itself Ann, there is one song, and every music-control
\* is a play at time 1
SnapSong == Song(SongData(1), Ann)

SnapControl == [isPlaying |-> TRUE, currentTime |-> 1]

NextSnapshot ==
    \/ \E c \in Conns : ServerOnly /\ Connect(c, NoOrigin)
    \/ \E c \in Conns : ServerOnly /\ CreateRoom(c, PlayCode)
    \/ \E c \in Conns : ServerOnly /\ LogLen(PlayCode) < MaxPlayLog /\ JoinRoom(c, PlayCode, Ann)
    \/ \E c \in Conns, t \in Texts : ServerOnly /\ LogLen(RoomOf(c)) < MaxLog /\ SendMessage(c, t)
    \/ \E c \in Conns : ServerOnly /\ PlaylistLen(RoomOf(c)) < MaxPlaylist /\ AddSong(c, SongData(1))
    \/ \E c \in Conns : ServerOnly /\ MusicControl(c, SnapControl)
    \/ \E c \in Conns : ServerOnly /\ LogLen(RoomOf(c)) < MaxLog /\ SelectSong(c, SnapSong)
    \/ \E c \in Conns : ServerOnly /\ Disconnect(c)

SpecSnapshot == Init /\ [][NextSnapshot]_vars

\* Server and clients of one room: every participant calls itself Ann and
\* adds the same file.  A client emits only while few events are in flight,
\* and no room is created once a client has seen MaxLog messages.
RECURSIVE InFlight(_)
InFlight(S) ==
    IF S = {} THEN 0
    ELSE LET c == CHOOSE x \in S : TRUE IN Len(inbox[c]) + InFlight(S \ {c})

Calm == InFlight(Conns) <= MaxInFlight

ViewLogLen(c) == IF view[c] = Null THEN 0 ELSE Len(view[c].messages)

FewSeen == \A c \in Conns : ViewLogLen(c) < MaxLog

NextClients ==
    \/ \E c \in Conns : ServerOnly /\ Connect(c, NoOrigin)
    \/ \E c \in Conns : Calm /\ FewSeen /\ ClientCreateRoom(c, PlayCode)
    \/ \E c \in Conns :
          Calm /\ LogLen(PlayCode) < MaxLog /\ ClientJoinRoom(c, PlayCode, Ann)
    \/ \E c \in Conns, t \in Texts :
          Calm /\ LogLen(RoomOf(c)) < MaxLog /\ ClientSendMessage(c, t)
    \/ \E c \in Conns :
          Calm /\ PlaylistLen(RoomOf(c)) < MaxPlaylist /\ ClientAddSong(c, SongData(1))
    \/ \E c \in Conns, i \in 1..MaxPlaylist :
          Calm /\ LogLen(RoomOf(c)) < MaxLog /\ ClientSelectSong(c, i)
    \/ \E c \in Conns : Calm /\ toggleMusic(c, 1)
    \/ \E c \in Conns : ClientDisconnect(c)
    \/ \E c \in Conns : Deliver(c)

\* Chat of one room with its clients: generateRoomCode draws PlayCode while
\* no room has it, the first client calls itself Ann and the others Bo
NameOf(c) == IF c = 1 THEN Ann ELSE Bo

NextInbox ==
    \/ \E c \in Conns : ServerOnly /\ Connect(c, NoOrigin)
    \/ \E c \in Conns : Calm /\ ~Has(rooms, PlayCode) /\ ClientCreateRoom(c, PlayCode)
    \/ \E c \in Conns :
          Calm /\ LogLen(PlayCode) < MaxLog /\ ClientJoinRoom(c, PlayCode, NameOf(c))
    \/ \E c \in Conns, t \in Texts :
          Calm /\ LogLen(RoomOf(c)) < MaxLog /\ ClientSendMessage(c, t)
    \/ \E c \in Conns : ClientDisconnect(c)
    \/ \E c \in Conns : Deliver(c)

SpecInbox == Init /\ [][NextInbox]_vars

\* Playback of one room with its clients.  audioFiles holds a file only on
\* the client that added it, so only that client's audio element plays and
\* reports its position.
HoldsFile(c) ==
    /\ view[c] # Null
    /\ view[c].currentSong # Null
    /\ Has(users, c)
    /\ view[c].currentSong.addedBy = users[c].username

NextPause ==
    \/ \E c \in Conns : ServerOnly /\ Connect(c, NoOrigin)
    \/ \E c \in Conns : Calm /\ ~Has(rooms, PlayCode) /\ ClientCreateRoom(c, PlayCode)
    \/ \E c \in Conns :
          Calm /\ LogLen(PlayCode) < MaxLog /\ ClientJoinRoom(c, PlayCode, NameOf(c))
    \/ \E c \in Conns :
          Calm /\ PlaylistLen(RoomOf(c)) < MaxPlaylist /\ ClientAddSong(c, SongData(1))
    \/ \E c \in Conns, i \in 1..MaxPlaylist :
          Calm /\ LogLen(RoomOf(c)) < MaxPlayLog /\ ClientSelectSong(c, i)
    \/ \E c \in Conns : Calm /\ toggleMusic(c, 1)
    \/ \E c \in Conns : Calm /\ HoldsFile(c) /\ onTimeUpdate(c, 1)
    \/ \E c \in Conns : ClientDisconnect(c)
    \/ \E c \in Conns : Deliver(c)

SpecPause == Init /\ [][NextPause]_vars

\* One room with clients of the build of src/unnamed/part_000
NextEncoded ==
    \/ \E c \in Conns : ServerOnly /\ Connect(c, NoOrigin)
    \/ \E c \in Conns : Calm /\ ~Has(rooms, PlayCode) /\ ClientCreateRoom(c, PlayCode)
    \/ \E c \in Conns :
          Calm /\ LogLen(PlayCode) < MaxLog /\ ClientJoinRoom(c, PlayCode, NameOf(c))
    \/ \E c \in Conns, t \in Texts :
          Calm /\ LogLen(RoomOf(c)) < MaxLog /\ ClientSendMessage(c, t)
    \/ \E c, n \in Conns : Remount(c, n)
    \/ \E c \in Conns : ClientDisconnect(c)
    \/ \E c \in Conns : Deliver(c)

SpecEncoded == Init /\ [][NextEncoded]_vars

\* Typing in one room with its clients
NextTypists ==
    \/ \E c \in Conns : ServerOnly /\ Connect(c, NoOrigin)
    \/ \E c \in Conns : Calm /\ ~Has(rooms, PlayCode) /\ ClientCreateRoom(c, PlayCode)
    \/ \E c \in Conns :
          Calm /\ LogLen(PlayCode) < MaxLog /\ ClientJoinRoom(c, PlayCode, NameOf(c))
    \/ \E c \in Conns, b \in BOOLEAN : Calm /\ handleTyping(c, b)
    \/ \E c \in Conns : ClientDisconnect(c)
    \/ \E c \in Conns : Deliver(c)

SpecTypists == Init /\ [][NextTypists]_vars

\* Playlist of one room with clients of both builds
AddInputs == {SongData(1), EncodedSongData(1)}

NextAudio ==
    \/ \E c \in Conns : ServerOnly /\ Connect(c, NoOrigin)
    \/ \E c \in Conns : ServerOnly /\ CreateRoom(c, PlayCode)
    \/ \E c \in Conns : ServerOnly /\ LogLen(PlayCode) < MaxLog /\ JoinRoom(c, PlayCode, Ann)
    \/ \E c \in Conns, d \in AddInputs :
          ServerOnly /\ PlaylistLen(RoomOf(c)) < MaxPlaylist /\ AddSong(c, d)
    \/ \E c \in Conns : ServerOnly /\ Disconnect(c)

SpecAudio == Init /\ [][NextAudio]_vars

SpecClients == Init /\ [][NextClients]_vars

\* Connections and Sessions of one room: any origin, every participant calls
\* itself Ann
NextSessions ==
    \/ \E c \in Conns, o \in Origins : ServerOnly /\ Connect(c, o)
    \/ \E c \in Conns : ServerOnly /\ CreateRoom(c, PlayCode)
    \/ \E c \in Conns : ServerOnly /\ LogLen(PlayCode) < MaxLog /\ JoinRoom(c, PlayCode, Ann)
    \/ \E c \in Conns : ServerOnly /\ Disconnect(c)

SpecSessions == Init /\ [][NextSessions]_vars

\* Avatars of one room: every participant joins from the lobby under one of
\* AvatarNames
NextAvatars ==
    \/ \E c \in Conns : ServerOnly /\ Connect(c, NoOrigin)
    \/ \E c \in Conns : ServerOnly /\ CreateRoom(c, PlayCode)
    \/ \E c \in Conns, n \in AvatarNames :
          ServerOnly /\ ~Has(users, c) /\ LogLen(PlayCode) < MaxLog /\
          JoinRoom(c, PlayCode, n)
    \/ \E c \in Conns : ServerOnly /\ Disconnect(c)

SpecAvatars == Init /\ [][NextAvatars]_vars

\* Seeking in one room: music-control with every sampled currentTime, the
\* negative one included, or with none
NextSeek ==
    \/ \E c \in Conns : ServerOnly /\ Connect(c, NoOrigin)
    \/ \E c \in Conns : ServerOnly /\ CreateRoom(c, PlayCode)
    \/ \E c \in Conns : ServerOnly /\ LogLen(PlayCode) < MaxLog /\ JoinRoom(c, PlayCode, Ann)
    \/ \E c \in Conns, d \in ControlInputs : ServerOnly /\ MusicControl(c, d)
    \/ \E c \in Conns : ServerOnly /\ Disconnect(c)

SpecSeek == Init /\ [][NextSeek]_vars

\* Playback in two rooms: a client creates and joins from the lobby only,
\* calls itself Ann, resumes without a currentTime or pauses at 1; the
\* members of PlayCode add one file and select it from the playlist
BareControls == {[isPlaying |-> TRUE], [isPlaying |-> FALSE, currentTime |-> 1]}

NextControl ==
    \/ \E c \in Conns : ServerOnly /\ Connect(c, NoOrigin)
    \/ \E c \in Conns, k \in Codes : ServerOnly /\ ~Has(users, c) /\ CreateRoom(c, k)
    \/ \E c \in Conns, k \in Codes : ServerOnly /\ ~Has(users, c) /\
          LogLen(k) < MaxLog /\ JoinRoom(c, k, Ann)
    \/ \E c \in Conns : ServerOnly /\ RoomOf(c) = PlayCode /\
          PlaylistLen(RoomOf(c)) < MaxPlaylist /\ AddSong(c, SongData(1))
    \/ \E c \in Conns, d \in BareControls : ServerOnly /\ MusicControl(c, d)
    \/ \E c \in Conns : ServerOnly /\ LogLen(RoomOf(c)) < MaxLog /\
          PlaylistLen(RoomOf(c)) > 0 /\ SelectSong(c, SnapSong)
    \/ \E c \in Conns : ServerOnly /\ Disconnect(c)

SpecControl == Init /\ [][NextControl]_vars

----------------------------------------------------------------------------
(* Membership, registry and fan-out *)

\* the connections whose Session is bound to room k
Bound(k) == {c \in DOMAIN users : users[c].roomCode = k}

\* the connection ids listed in Room.users of room k
ListedIds(k) == {rooms[k].users[i].id : i \in 1..Len(rooms[k].users)}

\* the outbound events that leave out their originator (socket.to)
ExcludesSender == {"user-joined", "user-typing", "music-sync", "user-left"}

\* C1: every live room's members list holds exactly the connections whose
\* Session is bound to that room, each of them once.
MembersAreBoundSessions ==
    \A k \in DOMAIN rooms :
        /\ ListedIds(k) = Bound(k)
        /\ \A i, j \in 1..Len(rooms[k].users) :
              rooms[k].users[i].id = rooms[k].users[j].id => i = j

\* C2: no connection id is listed in the members of two different live rooms.
InAtMostOneRoom ==
    \A c \in Conns : \A k1, k2 \in DOMAIN rooms :
        c \in ListedIds(k1) /\ c \in ListedIds(k2) => k1 = k2

\* C3: the code create-room returns is not the code of a room already in the
\* registry.
CreateRoomCodeIsFresh ==
    [][last'.type = "create-room" => ~Has(rooms, out'[1].data.roomCode)]_vars

\* C6: every event of room R goes to exactly the connections whose Session is
\* bound to R, minus the originator when the event leaves it out.
FanOutIsBoundSessions ==
    \A i \in 1..Len(out) :
        out[i].room # "" =>
            out[i].to = Bound(out[i].room) \
                          (IF out[i].ev \in ExcludesSender THEN {last.conn} ELSE {})

\* C7: once a connection's disconnect has been processed, no live room lists it.
ClosedIsListedNowhere ==
    \A c \in Conns : conn[c] = "closed" => \A k \in DOMAIN rooms : c \notin ListedIds(k)

\* C8: a disconnect that removes the last member of a room removes the room
\* from the registry in the same step.
LastLeaveRemovesRoom ==
    [][\A c \in Conns :
          ( /\ last'.type = "disconnect" /\ last'.conn = c
            /\ HasRoom(c)
            /\ rooms[RoomOf(c)].users # <<>>
            /\ Filter(rooms[RoomOf(c)].users, c) = <<>> )
          => ~Has(rooms', RoomOf(c))]_vars

\* C8 witness: the only listed member disconnected and its room is gone
LastLeaveSeen ==
    /\ last.type = "disconnect"
    /\ last.before # Null
    /\ last.before.users # <<>>
    /\ Filter(last.before.users, last.conn) = <<>>
    /\ Len(out) = 3
    /\ out[2].data.users = <<>>
    /\ ~Has(rooms, out[2].room)

\* C9: no step removes a room, or puts a fresh room under its code, while a
\* Session stays bound to it.
RoomKeptWhileBound ==
    [][\A k \in DOMAIN rooms :
          (\E c \in Bound(k) : Has(users', c) /\ users'[c].roomCode = k)
          => /\ Has(rooms', k)
             /\ ~(last'.type = "create-room" /\ last'.data.roomCode = k)]_vars

\* C10: join-room with a code that is not in the registry replies room-error
\* to the requester only and changes no Session, no room and no broadcast room.
JoinUnknownCodeChangesNothing ==
    [][\A c \in Conns :
          (last'.type = "join-room" /\ last'.conn = c
             /\ ~Has(rooms, last'.data.roomCode))
          => /\ users' = users
             /\ rooms' = rooms
             /\ joined' = joined
             /\ conn' = conn
             /\ Len(out') = 1
             /\ out'[1].ev = "room-error"
             /\ out'[1].to = {c}]_vars

\* C10 witness: a join was refused while another connection sits in a room
JoinRefusedSeen ==
    /\ last.type = "join-room"
    /\ ~Has(rooms, last.data.roomCode)
    /\ out[1].ev = "room-error"
    /\ \E d \in DOMAIN users : d # last.conn /\ HasRoom(d)

----------------------------------------------------------------------------
(* Playback *)

\* C4: select-song leaves the sender's room with the given song, paused, at
\* time 0, whatever its playback state was; selecting the song the room
\* already has, paused at 0, leaves the playback state as it is.
SelectSongResetsPlayback ==
    [][\A c \in Conns :
          (last'.type = "select-song" /\ last'.conn = c /\ HasRoom(c))
          => LET after == Playback(rooms'[RoomOf(c)])
                 reset == [ currentSong |-> last'.data.song, isPlaying |-> FALSE,
                            currentTime |-> 0 ]
             IN  /\ after = reset
                 /\ Playback(rooms[RoomOf(c)]) = reset
                       => after = Playback(rooms[RoomOf(c)])]_vars

\* C4 witness: the song already current was selected again while it was
\* playing at a non-zero time
ReselectWhilePlayingSeen ==
    /\ last.type = "select-song"
    /\ last.before # Null
    /\ last.before.isPlaying
    /\ last.before.currentTime # 0
    /\ last.before.currentSong = last.data.song
    /\ HasRoom(last.conn)
    /\ ~rooms[RoomOf(last.conn)].isPlaying

\* C5: a music-control from a member produces one music-sync, carrying the
\* room's new isPlaying and currentTime, that reaches every other connection
\* bound to the room and not the sender.
MusicSyncSkipsSender ==
    (last.type = "music-control" /\ HasRoom(last.conn)) =>
        LET k == RoomOf(last.conn) IN
            /\ Len(out) = 1
            /\ out[1].ev = "music-sync"
            /\ last.conn \notin out[1].to
            /\ Bound(k) \ {last.conn} \subseteq out[1].to
            /\ out[1].data = [ isPlaying |-> rooms[k].isPlaying,
                               currentTime |-> rooms[k].currentTime ]
            /\ out[1].data.isPlaying = last.data.isPlaying
            /\ out[1].data.currentTime = TimeOrZero(last.data)

\* C5 witness: a member of a two-member room sent music-control
MusicControlInSharedRoomSeen ==
    /\ last.type = "music-control"
    /\ HasRoom(last.conn)
    /\ Cardinality(Bound(RoomOf(last.conn))) >= 2
    /\ Len(out) = 1
    /\ out[1].to # {}
    /\ last.data.isPlaying

----------------------------------------------------------------------------
(* Room-scoped events *)

RoomScoped == {"send-message", "typing", "add-song", "music-control", "select-song"}

\* C11: a send-message, typing, add-song, music-control or select-song from a
\* connection without a Session changes no room, no Session and no broadcast
\* room and emits nothing.
OrphanEventIsDropped ==
    [][(last'.type \in RoomScoped /\ ~Has(users, last'.conn))
          => /\ rooms' = rooms
             /\ users' = users
             /\ joined' = joined
             /\ conn' = conn
             /\ out' = <<>>]_vars

\* C11 witness: a connection that never joined sent select-song while another
\* connection sat in a live room
OrphanSelectSeen ==
    /\ last.type = "select-song"
    /\ ~Has(users, last.conn)
    /\ out = <<>>
    /\ \E d \in DOMAIN users : d # last.conn /\ HasRoom(d)

\* C12: send-message from a connection bound to room R puts one message with
\* the sender's name and avatar and the given text at the end of R's log and
\* emits one new-message with it that reaches every connection bound to R,
\* the sender too.
SendMessageAppendsAndReachesAll ==
    [][\A c \in Conns :
          (last'.type = "send-message" /\ last'.conn = c /\ HasRoom(c))
          => LET k == RoomOf(c)
                 log == rooms'[k].messages
             IN  /\ Len(log) = Len(rooms[k].messages) + 1
                 /\ SubSeq(log, 1, Len(log) - 1) = rooms[k].messages
                 /\ log[Len(log)].username = users[c].username
                 /\ log[Len(log)].avatar = getAvatarColor(users[c].username)
                 /\ log[Len(log)].text = last'.data.text
                 /\ Len(out') = 1
                 /\ out'[1].ev = "new-message"
                 /\ out'[1].data.message = log[Len(log)]
                 /\ c \in out'[1].to
                 /\ Bound(k) \subseteq out'[1].to]_vars

\* C12 witness: a member of a two-member room sent a message that is now the
\* last of three in the log and went to both
SendMessageInSharedRoomSeen ==
    /\ last.type = "send-message"
    /\ HasRoom(last.conn)
    /\ Cardinality(Bound(RoomOf(last.conn))) = 2
    /\ Len(out) = 1
    /\ out[1].to = Bound(RoomOf(last.conn))
    /\ Len(rooms[RoomOf(last.conn)].messages) = 3
    /\ rooms[RoomOf(last.conn)].messages[3].text = last.data.text

\* C13: add-song from a connection bound to room R puts one song, added by
\* the sender's name, at the end of R's playlist, keeps the songs before it
\* as they were, and emits one playlist-updated with the whole new playlist
\* that reaches every connection bound to R, the sender too.
AddSongAppendsAndReachesAll ==
    [][\A c \in Conns :
          (last'.type = "add-song" /\ last'.conn = c /\ HasRoom(c))
          => LET k == RoomOf(c)
                 playlist == rooms'[k].playlist
                 n == Len(playlist)
             IN  /\ n = Len(rooms[k].playlist) + 1
                 /\ SubSeq(playlist, 1, n - 1) = rooms[k].playlist
                 /\ playlist[n].addedBy = users[c].username
                 /\ playlist[n].id = last'.data.id
                 /\ playlist[n].title = last'.data.title
                 /\ Len(out') = 1
                 /\ out'[1].ev = "playlist-updated"
                 /\ out'[1].data.playlist = playlist
                 /\ c \in out'[1].to
                 /\ Bound(k) \subseteq out'[1].to]_vars

\* C13 witness: in a two-member room a song was added behind a song that the
\* other participant had added
AddSongBehindAnotherSeen ==
    /\ last.type = "add-song"
    /\ HasRoom(last.conn)
    /\ Cardinality(Bound(RoomOf(last.conn))) = 2
    /\ Len(out) = 1
    /\ out[1].to = Bound(RoomOf(last.conn))
    /\ Len(out[1].data.playlist) = 2
    /\ out[1].data.playlist[2].addedBy = users[last.conn].username
    /\ out[1].data.playlist[1].addedBy # users[last.conn].username

----------------------------------------------------------------------------
(* Typing indicators *)

\* C14: typing from a connection that has a Session leaves that Session's
\* isTyping equal to the flag sent.
TypingSetsSessionFlag ==
    [][\A c \in Conns :
          (last'.type = "typing" /\ last'.conn = c /\ Has(users, c))
          => users'[c].isTyping = last'.data.isTyping]_vars

\* C15: a typing from a connection bound to room R produces one user-typing
\* with the sender's id and name and the flag sent, which reaches every other
\* connection bound to R and not the sender.
TypingReachesOthers ==
    (last.type = "typing" /\ HasRoom(last.conn)) =>
        LET k == RoomOf(last.conn) IN
            /\ Len(out) = 1
            /\ out[1].ev = "user-typing"
            /\ last.conn \notin out[1].to
            /\ Bound(k) \ {last.conn} \subseteq out[1].to
            /\ out[1].data = [ userId |-> last.conn,
                               username |-> users[last.conn].username,
                               isTyping |-> last.data.isTyping ]

----------------------------------------------------------------------------
(* Joining and leaving *)

\* a join-room that found its room has just been processed
JoinedNow == last.type = "join-room" /\ Len(out) = 4

\* the system message of a join
Welcome(username) == SystemMessage(<<"joined the room", username>>)

\* C16: the room-joined snapshot of a successful join lists the joiner in
\* users and has, in messages, the system message saying this joiner joined.
SnapshotHasWelcome ==
    JoinedNow =>
        LET room == out[1].data.room IN
            /\ out[1].ev = "room-joined"
            /\ \E i \in 1..Len(room.users) : room.users[i].id = last.conn
            /\ \E i \in 1..Len(room.messages) :
                  room.messages[i] = Welcome(last.data.username)

\* C16 as amended: the snapshot goes to the joiner alone, lists the joiner
\* last in users and carries the log as it was before the join; the system
\* message of this join is pushed on the log after the snapshot and reaches
\* the joiner as the new-message that follows.
SnapshotPrecedesWelcome ==
    [][\A c \in Conns :
          (last'.type = "join-room" /\ last'.conn = c
             /\ Has(rooms, last'.data.roomCode))
          => LET k == last'.data.roomCode
                 room == out'[1].data.room
             IN  /\ Len(out') = 4
                 /\ out'[1].ev = "room-joined"
                 /\ out'[1].to = {c}
                 /\ Len(room.users) = Len(rooms[k].users) + 1
                 /\ room.users[Len(room.users)].id = c
                 /\ room.users[Len(room.users)].username = last'.data.username
                 /\ room.messages = rooms[k].messages
                 /\ rooms'[k].messages =
                       Append(rooms[k].messages, Welcome(last'.data.username))
                 /\ out'[4].ev = "new-message"
                 /\ out'[4].data.message = Welcome(last'.data.username)
                 /\ c \in out'[4].to]_vars

\* C16 witness: a second participant joined and its snapshot carries the one
\* message that was in the log before
SecondJoinSnapshotSeen ==
    /\ JoinedNow
    /\ Len(out[1].data.room.users) = 2
    /\ out[1].data.room.users[1].id # last.conn
    /\ Len(out[1].data.room.messages) = 1
    /\ Len(rooms[last.data.roomCode].messages) = 2

\* C17: the room-joined snapshot carries the room as the join found it: the
\* whole log in order, the whole playlist, and currentSong, isPlaying and
\* currentTime as last set.
SnapshotIsRoomAtJoin ==
    [][\A c \in Conns :
          (last'.type = "join-room" /\ last'.conn = c
             /\ Has(rooms, last'.data.roomCode))
          => LET k == last'.data.roomCode
                 room == out'[1].data.room
             IN  /\ out'[1].ev = "room-joined"
                 /\ room.code = k
                 /\ room.messages = rooms[k].messages
                 /\ room.playlist = rooms[k].playlist
                 /\ room.currentSong = rooms[k].currentSong
                 /\ room.isPlaying = rooms[k].isPlaying
                 /\ room.currentTime = rooms[k].currentTime
                 /\ rooms'[k].playlist = room.playlist
                 /\ Playback(rooms'[k]) = Playback(rooms[k])]_vars

\* C17 witness: a late joiner got a snapshot with two messages, a song in
\* the playlist, and that song playing at time 1
LateJoinSnapshotSeen ==
    /\ JoinedNow
    /\ Len(out[1].data.room.users) = 2
    /\ out[1].data.room.users[1].id # last.conn
    /\ Len(out[1].data.room.messages) = 2
    /\ Len(out[1].data.room.playlist) = 1
    /\ out[1].data.room.currentSong = SnapSong
    /\ out[1].data.room.isPlaying
    /\ out[1].data.room.currentTime = 1

\* C18: when a join finds members in the room, each of them gets user-joined
\* with the joiner's profile and users-updated with the current members, each
\* once, in join order with the joiner last; the joiner gets no user-joined.
JoinAnnouncedToMembers ==
    (JoinedNow /\ Len(out[3].data.users) >= 2) =>
        LET k == last.data.roomCode
            list == out[3].data.users
            members == Bound(k) \cup {c \in ListedIds(k) : conn[c] = "open"}
        IN  /\ out[2].ev = "user-joined"
            /\ out[2].data.user.id = last.conn
            /\ out[2].data.user.username = last.data.username
            /\ out[2].data.user.avatar = getAvatarColor(last.data.username)
            /\ last.conn \notin out[2].to
            /\ members \ {last.conn} \subseteq out[2].to
            /\ out[3].ev = "users-updated"
            /\ members \ {last.conn} \subseteq out[3].to
            /\ list = rooms[k].users
            /\ list[Len(list)].id = last.conn
            /\ {list[i].id : i \in 1..Len(list)} = Bound(k)
            /\ \A i, j \in 1..Len(list) : list[i].id = list[j].id => i = j

\* C19: when a connection bound to room R disconnects, every connection that
\* stays bound to R gets user-left with its id, users-updated with R's list
\* without it, and new-message with the system message saying it left; the
\* room, while it stays in the registry, has that message at the end of its
\* log, and the Session is gone.
DisconnectAnnouncedToMembers ==
    [][\A c \in Conns :
          (last'.type = "disconnect" /\ last'.conn = c /\ HasRoom(c))
          => LET k == RoomOf(c)
                 remaining == Bound(k) \ {c}
                 left == SelectSeq(rooms[k].users, LAMBDA u : u.id # c)
                 message == SystemMessage(<<"left the room", users[c].username>>)
             IN  /\ Len(out') = 3
                 /\ out'[1].ev = "user-left"
                 /\ out'[1].data.userId = c
                 /\ out'[2].ev = "users-updated"
                 /\ out'[2].data.users = left
                 /\ out'[3].ev = "new-message"
                 /\ out'[3].data.message = message
                 /\ \A i \in 1..3 : remaining \subseteq out'[i].to /\ c \notin out'[i].to
                 /\ Has(rooms', k) =>
                       /\ rooms'[k].messages = Append(rooms[k].messages, message)
                       /\ rooms'[k].users = left
                 /\ ~Has(users', c)]_vars

\* C19 witness: one of two members disconnected; the other got the three
\* events and the room's log ends with the system message
MemberLeftSharedRoomSeen ==
    /\ last.type = "disconnect"
    /\ last.before # Null
    /\ Len(last.before.users) = 2
    /\ Len(out) = 3
    /\ out[1].to # {}
    /\ out[1].to = Bound(out[1].room)
    /\ Len(out[2].data.users) = 1
    /\ Has(rooms, out[1].room)
    /\ rooms[out[1].room].messages[Len(rooms[out[1].room].messages)] = out[3].data.message
    /\ ~Has(users, last.conn)

----------------------------------------------------------------------------
(* Song selection *)

\* C20: select-song from a connection bound to room R emits song-changed
\* with the song, isPlaying false and currentTime 0, and one new-message
\* with a system message naming the selector and the song's title; both
\* reach every connection bound to R, the selector too, and the message is
\* the one the step puts at the end of R's log.
SelectSongAnnouncedToAll ==
    [][\A c \in Conns :
          (last'.type = "select-song" /\ last'.conn = c /\ HasRoom(c))
          => LET k == RoomOf(c)
                 song == last'.data.song
                 message == out'[2].data.message
             IN  /\ Len(out') = 2
                 /\ out'[1].ev = "song-changed"
                 /\ out'[1].data = [song |-> song, isPlaying |-> FALSE, currentTime |-> 0]
                 /\ out'[2].ev = "new-message"
                 /\ message.username = "System"
                 /\ message.avatar = SystemAvatar
                 /\ message.text = <<"selected", users[c].username, song.title,
                                     song.artist>>
                 /\ \A i \in 1..2 : c \in out'[i].to /\ Bound(k) \subseteq out'[i].to
                 /\ rooms'[k].messages = Append(rooms[k].messages, message)]_vars

\* C20 witness: in a two-member room a member selected a song; both got
\* song-changed and the system message, now the third of the log
SelectSongInSharedRoomSeen ==
    /\ last.type = "select-song"
    /\ HasRoom(last.conn)
    /\ Cardinality(Bound(RoomOf(last.conn))) = 2
    /\ Len(out) = 2
    /\ out[1].to = Bound(RoomOf(last.conn))
    /\ out[2].to = Bound(RoomOf(last.conn))
    /\ Len(rooms[RoomOf(last.conn)].messages) = 3
    /\ rooms[RoomOf(last.conn)].messages[3] = out[2].data.message

----------------------------------------------------------------------------
(* Clients *)

\* C21: once every event sent has been handled, the room state of each
\* joined client has the member list, the log, the playlist and the current
\* song of its room on the server.
ViewsMatchServer ==
    Quiet =>
        \A c \in Conns :
            (HasRoom(c) /\ view[c] # Null) =>
                /\ view[c].users = rooms[RoomOf(c)].users
                /\ view[c].messages = rooms[RoomOf(c)].messages
                /\ view[c].playlist = rooms[RoomOf(c)].playlist
                /\ view[c].currentSong = rooms[RoomOf(c)].currentSong

\* C22: after a music-control sent by toggleMusic, once every event sent has
\* been handled, each client bound to the room, the sender too, has the
\* room's isPlaying and currentTime.
PlaybackViewsMatchServer ==
    (Quiet /\ last.type = "music-control" /\ HasRoom(last.conn)) =>
        \A c \in Bound(RoomOf(last.conn)) :
            view[c] # Null =>
                /\ view[c].isPlaying = rooms[RoomOf(c)].isPlaying
                /\ view[c].currentTime = rooms[RoomOf(c)].currentTime

----------------------------------------------------------------------------
(* Playlist content *)

\* the audio reference an add-song payload or a song carries
AudioRef(x) ==
    IF Has(x, "audioData") THEN x.audioData
    ELSE IF Has(x, "url") THEN x.url
    ELSE Undefined

\* C23: the song that add-song stores and sends in playlist-updated to the
\* connections bound to the room carries the audio reference of the payload.
AudioReferenceIsRelayed ==
    (last.type = "add-song" /\ HasRoom(last.conn)) =>
        LET k == RoomOf(last.conn)
            playlist == out[1].data.playlist
        IN  /\ Len(out) = 1
            /\ out[1].ev = "playlist-updated"
            /\ Bound(k) \subseteq out[1].to
            /\ playlist = rooms[k].playlist
            /\ AudioRef(playlist[Len(playlist)]) = AudioRef(last.data)

----------------------------------------------------------------------------
(* Origins *)

\* a connection opened by this step
Opened(c) == conn[c] # "open" /\ conn'[c] = "open"

\* C24 as stated: a step opens a connection only if its origin is one of the
\* allow-listed origins.
OnlyListedOriginsConnect ==
    [][\A c \in Conns : Opened(c) => last'.data.origin \in allowedOrigins]_vars

\* C24: a step opens a connection only if the request carries no origin or
\* an allow-listed one; a refused attempt opens nothing, sends nothing and
\* leaves the registry, the Session Table and the broadcast rooms as they
\* were; and only a connection that was opened changes them.
OnlyPassedOriginsConnect ==
    [][/\ \A c \in Conns :
             Opened(c) =>
                 /\ last'.type = "connection"
                 /\ last'.conn = c
                 /\ \/ last'.data.origin = NoOrigin
                    \/ last'.data.origin \in allowedOrigins
       /\ (last'.type = "connection" /\ last'.data.origin # NoOrigin
               /\ last'.data.origin \notin allowedOrigins) => conn' = conn
       /\ last'.type = "refused" =>
             /\ last'.data.origin # NoOrigin
             /\ last'.data.origin \notin allowedOrigins
             /\ out' = <<>>
             /\ UNCHANGED <<conn, rooms, users, joined>>
       /\ (rooms' # rooms \/ users' # users \/ joined' # joined) =>
             conn[last'.conn] = "open"]_vars

\* C24 witness: a connection attempt from an origin off the list was refused
\* while a room with a member exists
RefusedOriginSeen ==
    /\ last.type = "refused"
    /\ last.data.origin \notin allowedOrigins
    /\ conn[last.conn] = "none"
    /\ \E k \in DOMAIN rooms : Bound(k) # {}

----------------------------------------------------------------------------
(* Structural invariants *)

IsPrefix(s, t) == Len(s) <= Len(t) /\ \A i \in 1..Len(s) : s[i] = t[i]

\* C25: for every code under which the registry holds a room before and
\* after a step, the room's message log before the step is a prefix of its
\* log after the step.
LogOnlyGrows ==
    [][\A k \in DOMAIN rooms \cap DOMAIN rooms' :
          IsPrefix(rooms[k].messages, rooms'[k].messages)]_vars

\* join-room found its room and ran to its end
JoinSucceeded(e, o) == e.type = "join-room" /\ Len(o) > 0 /\ o[1].ev = "room-joined"

\* C26: the Session Table gains an entry for a connection only in a
\* join-room of that connection that found its room, and such a join always
\* leaves one; it loses an entry only in the disconnect of that connection,
\* and a disconnect always leaves none; so after every step the connections
\* with a Session are those that joined and have not disconnected.
SessionIffJoinedAndConnected ==
    [][/\ \A c \in Conns :
             (~Has(users, c) /\ Has(users', c)) =>
                 last'.conn = c /\ JoinSucceeded(last', out')
       /\ \A c \in Conns :
             (Has(users, c) /\ ~Has(users', c)) =>
                 last'.conn = c /\ last'.type = "disconnect"
       /\ JoinSucceeded(last', out') => Has(users', last'.conn)
       /\ last'.type = "disconnect" => ~Has(users', last'.conn)
       /\ \A c \in Conns :
             Has(users', c) <=> (conn'[c] = "open" /\ joined'[c] # {})]_vars

\* C26 witness: one connection joined and has its Session, while another
\* joined and disconnected and has none
SessionOfLeaverGoneSeen ==
    /\ last.type = "disconnect"
    /\ last.before # Null
    /\ ~Has(users, last.conn)
    /\ \E c \in Conns : c # last.conn /\ Has(users, c) /\ conn[c] = "open"

\* C27: the roomCode of every Session is the code of a room in the registry
\* whose members list has the connection, so HasRoom holds for every
\* connection that has a Session.
SessionRoomIsLiveAndListsIt ==
    \A c \in DOMAIN users :
        /\ Has(rooms, users[c].roomCode)
        /\ c \in ListedIds(users[c].roomCode)

----------------------------------------------------------------------------
(* Playback state *)

\* C28: every room is Empty (no currentSong, not playing, at time 0),
\* Selected-Paused or Playing: a room without a currentSong never has
\* isPlaying true or a currentTime other than 0.
PlaybackStateIsLegal ==
    \A k \in DOMAIN rooms :
        rooms[k].currentSong = Null =>
            /\ ~rooms[k].isPlaying
            /\ rooms[k].currentTime = 0

\* C29: the currentTime of every room is at least 0.
CurrentTimeIsNonNegative ==
    \A k \in DOMAIN rooms : rooms[k].currentTime >= 0

\* C30: a music-control from a connection that has a Session and a room sets
\* that room's isPlaying to the value given and its currentTime to the value
\* given, 0 when none is given; the room's other fields, every other room
\* and the Session Table stay as they were.
MusicControlOnlySetsPlayback ==
    [][(last'.type = "music-control" /\ HasRoom(last'.conn)) =>
          LET k == RoomOf(last'.conn)
              data == last'.data
              currentTime == IF Has(data, "currentTime") THEN data.currentTime ELSE 0
          IN  /\ DOMAIN rooms' = DOMAIN rooms
              /\ rooms'[k] = [ code |-> rooms[k].code,
                               users |-> rooms[k].users,
                               messages |-> rooms[k].messages,
                               playlist |-> rooms[k].playlist,
                               currentSong |-> rooms[k].currentSong,
                               isPlaying |-> data.isPlaying,
                               currentTime |-> currentTime ]
              /\ \A j \in DOMAIN rooms \ {k} : rooms'[j] = rooms[j]
              /\ users' = users]_vars

\* C30 witness: a music-control without currentTime reached a room that has
\* a member, a log, a playlist and a current song, while another room has a
\* member too
BareControlBesideOtherRoomSeen ==
    /\ last.type = "music-control"
    /\ ~Has(last.data, "currentTime")
    /\ HasRoom(last.conn)
    /\ rooms[RoomOf(last.conn)].currentSong # Null
    /\ rooms[RoomOf(last.conn)].playlist # <<>>
    /\ rooms[RoomOf(last.conn)].users # <<>>
    /\ rooms[RoomOf(last.conn)].currentTime = 0
    /\ \E j \in DOMAIN rooms : j # RoomOf(last.conn) /\ Bound(j) # {}

\* the songs of a playlist
SongsOf(playlist) == {playlist[i] : i \in 1..Len(playlist)}

\* C31: the currentSong of every room, when it is not null, is one of the
\* songs of that room's playlist.
CurrentSongIsInPlaylist ==
    \A k \in DOMAIN rooms :
        rooms[k].currentSong # Null => rooms[k].currentSong \in SongsOf(rooms[k].playlist)

----------------------------------------------------------------------------
(* Delivery *)

\* the messages of the new-message events of a queue, in its order
NewMessages(q) ==
    LET nm == SelectSeq(q, LAMBDA e : e.ev = "new-message")
    IN  [i \in 1..Len(nm) |-> nm[i].data.message]

\* what a step added at the end of a sequence
Added(s, t) == SubSeq(t, Len(s) + 1, Len(t))

\* C32: a step either hands a connection the oldest event queued for it or
\* queues events behind those already queued; and the messages a step
\* appends to a room's log are the new-message events it queues, in the
\* log's order, for every open connection bound to the room.  So every
\* member handles a room's new-message events in log order.
NewMessagesInLogOrder ==
    [][/\ \A c \in Conns :
             conn'[c] = "open" =>
                 \/ inbox[c] # <<>> /\ inbox'[c] = Tail(inbox[c])
                 \/ IsPrefix(inbox[c], inbox'[c])
       /\ \A k \in DOMAIN rooms \cap DOMAIN rooms' :
             IsPrefix(rooms[k].messages, rooms'[k].messages) =>
                 \A c \in DOMAIN users' :
                     (users'[c].roomCode = k /\ IsPrefix(inbox[c], inbox'[c])) =>
                         NewMessages(Added(inbox[c], inbox'[c]))
                             = Added(rooms[k].messages, rooms'[k].messages)]_vars

\* C32 witness: a client has two new-message events of different senders
\* queued, in the order in which they stand at the end of the log
TwoSendersQueuedSeen ==
    \E c \in DOMAIN users :
        /\ HasRoom(c)
        /\ Len(NewMessages(inbox[c])) >= 2
        /\ NewMessages(inbox[c])[1] # NewMessages(inbox[c])[2]
        /\ LET log == rooms[RoomOf(c)].messages
               q == NewMessages(inbox[c])
           IN  /\ Len(log) >= Len(q)
               /\ SubSeq(log, Len(log) - Len(q) + 1, Len(log)) = q

----------------------------------------------------------------------------
(* Frame effects *)

\* C33: create-room adds one room under a code the registry did not hold:
\* without members, messages or songs, with no currentSong, paused at 0; it
\* replies room-created to the requester alone and leaves the rooms the
\* registry held and the Session Table as they were.
CreateRoomOnlyAddsEmptyRoom ==
    [][last'.type = "create-room" =>
          LET k == last'.data.roomCode
          IN  /\ k \notin DOMAIN rooms
              /\ DOMAIN rooms' = DOMAIN rooms \cup {k}
              /\ rooms'[k] = [ code |-> k, users |-> <<>>, messages |-> <<>>,
                               playlist |-> <<>>, currentSong |-> Null,
                               isPlaying |-> FALSE, currentTime |-> 0 ]
              /\ \A j \in DOMAIN rooms : rooms'[j] = rooms[j]
              /\ users' = users
              /\ Len(out') = 1
              /\ out'[1].ev = "room-created"
              /\ out'[1].data.roomCode = k
              /\ out'[1].to = {last'.conn}]_vars

\* C34: the disconnect of a connection that has no Session leaves the
\* registry and the Session Table as they were and emits nothing.
SessionlessDisconnectIsSilent ==
    [][(last'.type = "disconnect" /\ ~Has(users, last'.conn)) =>
          /\ rooms' = rooms
          /\ users' = users
          /\ out' = <<>>]_vars

\* C34 witness: a connection that never joined disconnected while the other
\* connection sits alone in its room
NeverJoinedLeftSeen ==
    /\ last.type = "disconnect"
    /\ out = <<>>
    /\ Has(rooms, PlayCode)
    /\ Len(rooms[PlayCode].users) = 1
    /\ Len(rooms[PlayCode].messages) = 1
    /\ \E c \in Bound(PlayCode) :
          c # last.conn /\ conn[c] = "open" /\ ListedIds(PlayCode) = {c}

----------------------------------------------------------------------------
(* Room lifetime *)

\* C35: once no connection is open, every room left in the registry is as
\* create-room made it: it lists no member and has an empty log, so no room
\* that had a member is left.
NoUsedRoomOutlivesConnections ==
    (\A c \in Conns : conn[c] # "open") =>
        \A k \in DOMAIN rooms :
            rooms[k].users = <<>> /\ rooms[k].messages = <<>>

\* the events of a queue that a client without a room drops
RoomEvents(q) == SelectSeq(q, LAMBDA e : e.ev \notin {"room-created", "room-error"})

Kinds(q) == [i \in 1..Len(q) |-> q[i].ev]

\* the client has its room, or the first room event it will handle sets it
SnapshotComesFirst(room, q) ==
    room = Null => (RoomEvents(q) = <<>> \/ RoomEvents(q)[1].ev = "room-joined")

\* C36: a join-room that finds its room (it pushes to the room, so rooms
\* changes) queues room-joined, users-updated
\* and the welcome new-message for the joiner, in this order and behind what
\* was queued; and after every step each client whose room is unset has no
\* room event queued ahead of a room-joined, so none is dropped.
JoinerGetsSnapshotFirst ==
    [][/\ (JoinSucceeded(last', out') /\ rooms' # rooms) =>
             /\ IsPrefix(inbox[last'.conn], inbox'[last'.conn])
             /\ Kinds(Added(inbox[last'.conn], inbox'[last'.conn]))
                    = <<"room-joined", "users-updated", "new-message">>
       /\ \A c \in Conns : SnapshotComesFirst(view'[c], inbox'[c])]_vars

\* C36 witness: the second member's join is queued whole and unhandled
JoinerQueueSeen ==
    \E c \in DOMAIN users :
        /\ view[c] = Null
        /\ Kinds(inbox[c]) = <<"room-joined", "users-updated", "new-message">>
        /\ Cardinality(Bound(RoomOf(c))) = 2
        /\ Len(inbox[c][1].data.room.users) = 2

----------------------------------------------------------------------------
(* Playback races *)

\* C37: a room that is paused on the server starts playing again only when
\* a member presses play, that is by a music-control from a client that shows
\* the room paused; the position report of a client that still shows it
\* playing does not switch it back on.
PauseIsNotUndone ==
    [][\A k \in DOMAIN rooms \cap DOMAIN rooms' :
          (~rooms[k].isPlaying /\ rooms'[k].isPlaying) =>
              /\ last'.type = "music-control"
              /\ view[last'.conn] # Null
              /\ ~view[last'.conn].isPlaying]_vars

----------------------------------------------------------------------------
(* The client of src/unnamed/part_000 *)

\* C38: a client that shows a room, and was not closed, has a Session and is
\* listed in the members of the Session's room: handling events does not
\* cost it its connection.
ShownRoomKeepsSession ==
    \A c \in Conns :
        (view[c] # Null /\ conn[c] # "closed") =>
            /\ HasRoom(c)
            /\ c \in ListedIds(RoomOf(c))

----------------------------------------------------------------------------
(* Typing lists *)

\* C39: once every event sent has been handled, every name in the typing
\* list of a client that sits in a room is the name of a connection bound to
\* that room whose entry in the members list has isTyping true.
TypingListIsCurrent ==
    Quiet =>
        \A c \in Conns :
            (conn[c] = "open" /\ view[c] # Null /\ HasRoom(c)) =>
                \A i \in 1..Len(typingUsers[c]) :
                    \E d \in Bound(RoomOf(c)) :
                        /\ users[d].username = typingUsers[c][i]
                        /\ \E j \in 1..Len(rooms[RoomOf(c)].users) :
                              /\ rooms[RoomOf(c)].users[j].id = d
                              /\ rooms[RoomOf(c)].users[j].isTyping

\* C40: getAvatarColor is total and deterministic.  For every display name,
\* the empty one and the ones whose hash wraps included, abs(hash) mod 10 is
\* an index in 0..9; every member entry and Session carries a palette color,
\* the one at that index, and entries with the same name carry the same color.
Palette == {colors[i] : i \in 1..Len(colors)}

HashIndex(username) == AbsMod(HashFold(username, 1, <<0, 0>>), Len(colors))

Avatars ==
    {[username |-> users[c].username, avatar |-> users[c].avatar] : c \in DOMAIN users}
    \cup UNION {{[username |-> rooms[k].users[i].username,
                  avatar |-> rooms[k].users[i].avatar] :
                     i \in 1..Len(rooms[k].users)} : k \in DOMAIN rooms}

AvatarIsPaletteColorOfName ==
    /\ \A n \in AvatarNames : HashIndex(n) \in 0..9
    /\ \A a \in Avatars :
          /\ a.avatar \in Palette
          /\ a.avatar = colors[HashIndex(a.username) + 1]
          /\ \A b \in Avatars : b.username = a.username => b.avatar = a.avatar

\* two members joined under the same wrapping name, and both got one color
SameWrappingNameTwiceSeen ==
    /\ Has(rooms, PlayCode)
    /\ Len(rooms[PlayCode].users) = 2
    /\ rooms[PlayCode].users[1].id # rooms[PlayCode].users[2].id
    /\ rooms[PlayCode].users[1].username = Maximilian
    /\ rooms[PlayCode].users[2].username = Maximilian
    /\ rooms[PlayCode].users[1].avatar = rooms[PlayCode].users[2].avatar
    /\ HashFold(Maximilian, 1, <<0, 0>>)[1] < 0

====
